---- MODULE Spec2Model ----
(***************************************************************************)
(* Thompson NFA construction and simulation (src/thompson_nfa.py).         *)
(*                                                                         *)
(* A regex or a word is a sequence of one-character strings.  A State      *)
(* object is a reference (its index in the heap of the build that          *)
(* allocated it) with an id field and a set of <<label, target>> edges.    *)
(***************************************************************************)
EXTENDS Integers, Sequences, FiniteSets, TLC

VARIABLES
    _id,        \* the module-level counter behind new_id
    pc,         \* where the caller is: "idle", "called", "returned", "checked", "crashed"
    regex,      \* the argument of the current compile_regex_to_nfa call
    s,          \* compile_regex_to_nfa's local s (the expanded regex)
    post,       \* compile_regex_to_nfa's local post (to_postfix's result)
    outcome,    \* what the call produced: an NFA or the exception it raised
    word,       \* the argument w of the last nfa_accepts call
    verdict,    \* what that nfa_accepts call returned
    id_at_call, \* the value _id had when the last call was entered
    batch,      \* the regexes a batch caller still has to compile
    nfas,       \* the automata a batch caller has collected, with their regexes
    verdicts    \* nfa_accepts on word for each automaton of a finished batch

vars == <<_id, pc, regex, s, post, outcome, word, verdict, id_at_call, batch, nfas, verdicts>>

----------------------------------------------------------------------------
(* Bounds *)

MaxLen == 3       \* longest regex the caller passes
MaxWord == 3      \* longest word the caller passes
MaxA == 2         \* longest sub-expression A of a batch
MaxB == 1         \* longest sub-expression B of a batch

----------------------------------------------------------------------------
(* Characters *)

EPS == "ε"

Letters == {"a", "b"}
Space == " "
OperatorChars == {"|", "*", "+", "?", "(", ")", "."}
UnaryOps == {"*", "+", "?"}

RegexChars == Letters \cup {EPS, Space} \cup OperatorChars
ArgChars == Letters \cup {EPS} \cup OperatorChars
WordChars == Letters \cup {EPS}

RECURSIVE SeqsUpTo(_, _)
SeqsUpTo(S, n) ==
    IF n = 0 THEN {<<>>}
    ELSE LET shorter == SeqsUpTo(S, n - 1)
         IN  shorter \cup {Append(q, c) : q \in shorter, c \in S}

Regexes == SeqsUpTo(RegexChars, MaxLen)
Words == SeqsUpTo(WordChars, MaxWord)

Last(q) == q[Len(q)]
Front(q) == SubSeq(q, 1, Len(q) - 1)

----------------------------------------------------------------------------
(* Tokenisation and parsing *)

remove_spaces(str) == SelectSeq(str, LAMBDA ch : ch # Space)

\* is_symbol with the empty-string marker counted as an operator
is_symbol_no_eps(ch) == ch \notin {"|", "*", "+", "?", "(", ")", ".", EPS}

is_symbol(ch) == ch \notin {"|", "*", "+", "?", "(", ")", "."}

RECURSIVE add_concat_from(_, _, _)
add_concat_from(exp, i, res) ==
    IF i > Len(exp) THEN res
    ELSE LET res1 == Append(res, exp[i])
         IN  IF i = Len(exp) THEN add_concat_from(exp, i + 1, res1)
             ELSE LET a == exp[i]
                      b == exp[i + 1]
                  IN  IF (is_symbol(a) \/ a \in {")", "*", "+", "?"})
                         /\ (is_symbol(b) \/ b \in {"(", EPS})
                      THEN add_concat_from(exp, i + 1, Append(res1, "."))
                      ELSE add_concat_from(exp, i + 1, res1)

add_concat(exp) == add_concat_from(exp, 1, <<>>)

PRECEDENCE == ("|" :> 1) @@ ("." :> 2) @@ ("*" :> 3) @@ ("+" :> 3) @@ ("?" :> 3)

\* RIGHT_ASSOC left empty: every operator is left-associative
RIGHT_ASSOC_none == {}

RIGHT_ASSOC == {"*", "+", "?"}

\* the inner loop of the ")" branch
RECURSIVE PopToParen(_, _)
PopToParen(out, stack) ==
    IF stack # <<>> /\ Last(stack) # "("
    THEN PopToParen(Append(out, Last(stack)), Front(stack))
    ELSE [out |-> out, stack |-> stack]

\* the inner loop of the operator branch
RECURSIVE PopOperators(_, _, _)
PopOperators(out, stack, ch) ==
    IF stack # <<>> /\ Last(stack) # "("
    THEN LET top == Last(stack)
         IN  IF top \in DOMAIN PRECEDENCE
                /\ (PRECEDENCE[top] > PRECEDENCE[ch]
                    \/ (PRECEDENCE[top] = PRECEDENCE[ch] /\ ch \notin RIGHT_ASSOC))
             THEN PopOperators(Append(out, top), Front(stack), ch)
             ELSE [out |-> out, stack |-> stack]
    ELSE [out |-> out, stack |-> stack]

\* one iteration of to_postfix's main loop, on the character ch
PostfixStep(st, ch) ==
    IF ch = EPS THEN [st EXCEPT !.out = Append(st.out, EPS)]
    ELSE IF is_symbol(ch) THEN [st EXCEPT !.out = Append(st.out, ch)]
    ELSE IF ch = "(" THEN [st EXCEPT !.stack = Append(st.stack, ch)]
    ELSE IF ch = ")" THEN
        LET p == PopToParen(st.out, st.stack)
        IN  IF p.stack = <<>>
            THEN [out |-> p.out, stack |-> p.stack, err |-> "UnbalancedParentheses"]
            ELSE [out |-> p.out, stack |-> Front(p.stack), err |-> "none"]
    ELSE IF ch \in DOMAIN PRECEDENCE THEN
        LET p == PopOperators(st.out, st.stack, ch)
        IN  [out |-> p.out, stack |-> Append(p.stack, ch), err |-> "none"]
    ELSE [st EXCEPT !.err = "UnsupportedSymbol"]

\* to_postfix's locals after the first n characters (or at the raise)
RECURSIVE PostfixRun(_, _)
PostfixRun(str, n) ==
    IF n = 0 THEN [out |-> <<>>, stack |-> <<>>, err |-> "none"]
    ELSE LET st == PostfixRun(str, n - 1)
         IN  IF st.err # "none" THEN st ELSE PostfixStep(st, str[n])

\* the final loop without its parenthesis check
RECURSIVE PostfixDrainUnchecked(_, _)
PostfixDrainUnchecked(out, stack) ==
    IF stack = <<>> THEN [out |-> out, err |-> "none"]
    ELSE PostfixDrainUnchecked(Append(out, Last(stack)), Front(stack))

\* the final loop that empties the operator stack
RECURSIVE PostfixDrain(_, _)
PostfixDrain(out, stack) ==
    IF stack = <<>> THEN [out |-> out, err |-> "none"]
    ELSE IF Last(stack) \in {"(", ")"}
         THEN [out |-> out, err |-> "UnbalancedParentheses"]
         ELSE PostfixDrain(Append(out, Last(stack)), Front(stack))

to_postfix(str) ==
    LET st == PostfixRun(str, Len(str))
    IN  IF st.err # "none" THEN [out |-> st.out, err |-> st.err]
        ELSE PostfixDrain(st.out, st.stack)

----------------------------------------------------------------------------
(* Thompson construction *)

new_id(counter) == counter + 1

\* State(): a fresh object whose id is new_id()
NewState(b) ==
    [b EXCEPT !.id = new_id(b.id),
              !.heap = Append(b.heap, [id |-> new_id(b.id), edges |-> {}])]

add_edge(heap, from, sym, to) ==
    [heap EXCEPT ![from].edges = @ \cup {<<sym, to>>}]

Fragment(start, accept) == [start |-> start, accept |-> accept]

\* stack.pop() applied to an empty list
Underflow(b) == [b EXCEPT !.err = "IndexError"]

sym_frag(b, tok) ==
    LET b2 == NewState(NewState(b))
        x == Len(b.heap) + 1
        y == Len(b.heap) + 2
    IN  [b2 EXCEPT !.heap = add_edge(b2.heap, x, IF tok = EPS THEN EPS ELSE tok, y),
                   !.stack = Append(b.stack, Fragment(x, y))]

AltRule(b) ==
    IF Len(b.stack) < 2 THEN Underflow(b)
    ELSE LET fb == b.stack[Len(b.stack)]
             fa == b.stack[Len(b.stack) - 1]
             rest == SubSeq(b.stack, 1, Len(b.stack) - 2)
             b2 == NewState(NewState(b))
             x == Len(b.heap) + 1
             y == Len(b.heap) + 2
             h1 == add_edge(add_edge(b2.heap, x, EPS, fa.start), x, EPS, fb.start)
             h2 == add_edge(add_edge(h1, fa.accept, EPS, y), fb.accept, EPS, y)
         IN  [b2 EXCEPT !.heap = h2, !.stack = Append(rest, Fragment(x, y))]

\* the "." rule with the operands popped in the wrong order
ConcatRuleSwapped(b) ==
    IF Len(b.stack) < 2 THEN Underflow(b)
    ELSE LET fa == b.stack[Len(b.stack)]
             fb == b.stack[Len(b.stack) - 1]
             rest == SubSeq(b.stack, 1, Len(b.stack) - 2)
         IN  [b EXCEPT !.heap = add_edge(b.heap, fa.accept, EPS, fb.start),
                       !.stack = Append(rest, Fragment(fa.start, fb.accept))]

\* the "." rule without the epsilon edge that joins the operands
ConcatRuleNoEdge(b) ==
    IF Len(b.stack) < 2 THEN Underflow(b)
    ELSE LET fb == b.stack[Len(b.stack)]
             fa == b.stack[Len(b.stack) - 1]
             rest == SubSeq(b.stack, 1, Len(b.stack) - 2)
         IN  [b EXCEPT !.stack = Append(rest, Fragment(fa.start, fb.accept))]

ConcatRule(b) ==
    IF Len(b.stack) < 2 THEN Underflow(b)
    ELSE LET fb == b.stack[Len(b.stack)]
             fa == b.stack[Len(b.stack) - 1]
             rest == SubSeq(b.stack, 1, Len(b.stack) - 2)
         IN  [b EXCEPT !.heap = add_edge(b.heap, fa.accept, EPS, fb.start),
                       !.stack = Append(rest, Fragment(fa.start, fb.accept))]

StarRule(b) ==
    IF Len(b.stack) < 1 THEN Underflow(b)
    ELSE LET fa == Last(b.stack)
             b2 == NewState(NewState(b))
             x == Len(b.heap) + 1
             y == Len(b.heap) + 2
             h1 == add_edge(add_edge(b2.heap, x, EPS, fa.start), x, EPS, y)
             h2 == add_edge(add_edge(h1, fa.accept, EPS, fa.start), fa.accept, EPS, y)
         IN  [b2 EXCEPT !.heap = h2, !.stack = Append(Front(b.stack), Fragment(x, y))]

PlusRule(b) ==
    IF Len(b.stack) < 1 THEN Underflow(b)
    ELSE LET fa == Last(b.stack)
             b2 == NewState(NewState(b))
             x == Len(b.heap) + 1
             y == Len(b.heap) + 2
             h1 == add_edge(b2.heap, x, EPS, fa.start)
             h2 == add_edge(add_edge(h1, fa.accept, EPS, fa.start), fa.accept, EPS, y)
         IN  [b2 EXCEPT !.heap = h2, !.stack = Append(Front(b.stack), Fragment(x, y))]

OptionalRule(b) ==
    IF Len(b.stack) < 1 THEN Underflow(b)
    ELSE LET fa == Last(b.stack)
             b2 == NewState(NewState(b))
             x == Len(b.heap) + 1
             y == Len(b.heap) + 2
             h1 == add_edge(add_edge(b2.heap, x, EPS, fa.start), x, EPS, y)
             h2 == add_edge(h1, fa.accept, EPS, y)
         IN  [b2 EXCEPT !.heap = h2, !.stack = Append(Front(b.stack), Fragment(x, y))]

\* one iteration of thompson_from_postfix's loop, on the token tok
ThompsonStep(b, tok) ==
    IF tok = "|" THEN AltRule(b)
    ELSE IF tok = "." THEN ConcatRule(b)
    ELSE IF tok = "*" THEN StarRule(b)
    ELSE IF tok = "+" THEN PlusRule(b)
    ELSE IF tok = "?" THEN OptionalRule(b)
    ELSE sym_frag(b, tok)

RECURSIVE ThompsonRun(_, _, _)
ThompsonRun(toks, n, counter) ==
    IF n = 0 THEN [stack |-> <<>>, heap |-> <<>>, id |-> counter, err |-> "none"]
    ELSE LET b == ThompsonRun(toks, n - 1, counter)
         IN  IF b.err # "none" THEN b ELSE ThompsonStep(b, toks[n])

Successors(heap, u) == {e[2] : e \in heap[u].edges}

\* the states dfs(start) visits
RECURSIVE dfs(_, _, _)
dfs(heap, frontier, visited) ==
    IF frontier = {} THEN visited
    ELSE LET seen == visited \cup frontier
         IN  dfs(heap, (UNION {Successors(heap, u) : u \in frontier}) \ seen, seen)

Raised(err) ==
    [kind |-> "error", err |-> err, start |-> 0, accept |-> 0, states |-> {}, heap |-> <<>>]

NFA(start, accept, states, heap) ==
    [kind |-> "nfa", err |-> "none", start |-> start, accept |-> accept,
     states |-> states, heap |-> heap]

\* the automaton (or the exception) and the value the counter is left at
thompson_from_postfix(toks, counter) ==
    LET b == ThompsonRun(toks, Len(toks), counter)
    IN  IF b.err # "none" THEN [result |-> Raised(b.err), id |-> b.id]
        ELSE IF Len(b.stack) # 1 THEN [result |-> Raised("InvalidConstruction"), id |-> b.id]
        ELSE LET frag == b.stack[1]
             IN  [result |-> NFA(frag.start, frag.accept,
                                 dfs(b.heap, {frag.start}, {}), b.heap),
                  id |-> b.id]

----------------------------------------------------------------------------
(* Simulation *)

EpsSuccessors(heap, u) == {e[2] : e \in {f \in heap[u].edges : f[1] = EPS}}

RECURSIVE closure_from(_, _, _)
closure_from(heap, pending, closure) ==
    IF pending = {} THEN closure
    ELSE LET new == (UNION {EpsSuccessors(heap, u) : u \in pending}) \ closure
         IN  closure_from(heap, new, closure \cup new)

epsilon_closure(heap, states) == closure_from(heap, states, states)

move(heap, states, sym) ==
    UNION {{e[2] : e \in {f \in heap[u].edges : f[1] = sym}} : u \in states}

RECURSIVE accepts_from(_, _, _, _)
accepts_from(nfa, w, i, current) ==
    IF i > Len(w) THEN current
    ELSE LET next == epsilon_closure(nfa.heap, move(nfa.heap, current, w[i]))
         IN  IF next = {} THEN next ELSE accepts_from(nfa, w, i + 1, next)

nfa_accepts(nfa, w) ==
    nfa.accept \in accepts_from(nfa, w, 1, epsilon_closure(nfa.heap, {nfa.start}))

----------------------------------------------------------------------------
(* compile_regex_to_nfa *)

\* compile_regex_to_nfa without the reset of _id
KeepCounter(counter) == counter

ResetCounter(counter) == 0

compile_regex_to_nfa(str, counter) ==
    LET c0 == ResetCounter(counter)
        expanded == add_concat(remove_spaces(str))
        p == to_postfix(expanded)
    IN  IF p.err # "none"
        THEN [s |-> expanded, post |-> p.out, result |-> Raised(p.err), id |-> c0]
        ELSE LET t == thompson_from_postfix(p.out, c0)
             IN  [s |-> expanded, post |-> p.out, result |-> t.result, id |-> t.id]

----------------------------------------------------------------------------
(* The caller: any sequence of compile_regex_to_nfa and nfa_accepts calls *)

NoOutcome ==
    [kind |-> "none", err |-> "none", start |-> 0, accept |-> 0, states |-> {}, heap |-> <<>>]

Init ==
    /\ _id = 0
    /\ pc = "idle"
    /\ regex = <<>>
    /\ s = <<>>
    /\ post = <<>>
    /\ outcome = NoOutcome
    /\ word = <<>>
    /\ verdict = FALSE
    /\ id_at_call = 0
    /\ batch = <<>>
    /\ nfas = <<>>
    /\ verdicts = <<>>

Call ==
    /\ pc = "idle"
    /\ pc' = "called"
    /\ \E r \in Regexes : regex' = r
    /\ UNCHANGED <<_id, s, post, outcome, word, verdict, id_at_call, batch, nfas, verdicts>>

CompileRegexToNfa ==
    /\ pc = "called"
    /\ LET c == compile_regex_to_nfa(regex, _id)
       IN  /\ _id' = c.id
           /\ s' = c.s
           /\ post' = c.post
           /\ outcome' = c.result
    /\ id_at_call' = _id
    /\ pc' = "returned"
    /\ UNCHANGED <<regex, word, verdict, batch, nfas, verdicts>>

NfaAccepts ==
    /\ pc = "returned"
    /\ outcome.kind = "nfa"
    /\ \E w \in Words :
           /\ word' = w
           /\ verdict' = nfa_accepts(outcome, w)
    /\ id_at_call' = _id
    /\ pc' = "checked"
    /\ UNCHANGED <<_id, regex, s, post, outcome, batch, nfas, verdicts>>

\* the caller lets go of the automaton and its locals; only _id survives
NextIteration ==
    /\ pc \in {"returned", "checked"}
    /\ pc' = "idle"
    /\ regex' = <<>>
    /\ s' = <<>>
    /\ post' = <<>>
    /\ outcome' = NoOutcome
    /\ word' = <<>>
    /\ verdict' = FALSE
    /\ id_at_call' = 0
    /\ UNCHANGED <<_id, batch, nfas, verdicts>>

Next ==
    \/ Call
    \/ CompileRegexToNfa
    \/ NfaAccepts
    \/ NextIteration

Spec == Init /\ [][Next]_vars

----------------------------------------------------------------------------
(* A batch caller: compiles A, then B, then the expressions built from the *)
(* two, keeps the automata, and then runs one word through all of them.    *)
(* An exception ends the run, as in main.                                  *)

Paren(r) == <<"(">> \o r \o <<")">>

\* B and the expressions built from A and B
BatchOf(A, B) ==
    << B,
       Paren(A) \o Paren(B),
       Paren(A) \o <<".">> \o Paren(B),
       Paren(A \o <<"|">> \o B),
       Paren(A) \o <<"+">> >>

ArgsA == SeqsUpTo(ArgChars, MaxA)
ArgsB == SeqsUpTo(ArgChars, MaxB)

InitBatch ==
    /\ _id = 0
    /\ pc = "idle"
    /\ regex = <<>>
    /\ s = <<>>
    /\ post = <<>>
    /\ outcome = NoOutcome
    /\ word = <<>>
    /\ verdict = FALSE
    /\ id_at_call = 0
    /\ \E A \in ArgsA : batch = <<A>>
    /\ nfas = <<>>
    /\ verdicts = <<>>

BatchCall ==
    /\ pc = "idle"
    /\ batch # <<>>
    /\ pc' = "called"
    /\ regex' = Head(batch)
    /\ batch' = Tail(batch)
    /\ UNCHANGED <<_id, s, post, outcome, word, verdict, id_at_call, nfas, verdicts>>

BatchExtend ==
    /\ pc = "idle"
    /\ batch = <<>>
    /\ Len(nfas) = 1
    /\ \E B \in ArgsB : batch' = BatchOf(nfas[1].regex, B)
    /\ UNCHANGED <<_id, pc, regex, s, post, outcome, word, verdict, id_at_call, nfas, verdicts>>

BatchCollect ==
    /\ pc = "returned"
    /\ outcome.kind = "nfa"
    /\ nfas' = Append(nfas, [regex |-> regex, nfa |-> outcome])
    /\ pc' = "idle"
    /\ regex' = <<>>
    /\ s' = <<>>
    /\ post' = <<>>
    /\ outcome' = NoOutcome
    /\ id_at_call' = 0
    /\ UNCHANGED <<_id, word, verdict, batch, verdicts>>

BatchCrash ==
    /\ pc = "returned"
    /\ outcome.kind = "error"
    /\ pc' = "crashed"
    /\ UNCHANGED <<_id, regex, s, post, outcome, word, verdict, id_at_call, batch, nfas, verdicts>>

BatchAccepts ==
    /\ pc = "idle"
    /\ batch = <<>>
    /\ Len(nfas) > 1
    /\ \E w \in Words :
           /\ word' = w
           /\ verdicts' = [k \in DOMAIN nfas |-> nfa_accepts(nfas[k].nfa, w)]
    /\ pc' = "checked"
    /\ UNCHANGED <<_id, regex, s, post, outcome, verdict, id_at_call, batch, nfas>>

NextBatch ==
    \/ BatchCall
    \/ BatchExtend
    \/ CompileRegexToNfa
    \/ BatchCollect
    \/ BatchCrash
    \/ BatchAccepts

SpecBatch == InitBatch /\ [][NextBatch]_vars

----------------------------------------------------------------------------
(* Properties *)

Returned == pc = "returned"
Built == pc = "returned" /\ outcome.kind = "nfa"

\* the states a path of at most n transitions (of any label) leads to from S
RECURSIVE ReachWithin(_, _, _)
ReachWithin(heap, S, n) ==
    IF n = 0 THEN S
    ELSE LET R == ReachWithin(heap, S, n - 1)
         IN  R \cup {v \in DOMAIN heap : \E u \in R : \E e \in heap[u].edges : e[2] = v}

\* C1: on every successful compile, start and accept are members of
\* nfa.states, every member of nfa.states is reachable from start by
\* transitions of any label, and accept is reachable from start.
C1_Reachable ==
    Built =>
        LET R == ReachWithin(outcome.heap, {outcome.start}, Len(outcome.heap))
        IN  /\ outcome.start \in outcome.states
            /\ outcome.accept \in outcome.states
            /\ outcome.states \subseteq R
            /\ outcome.accept \in R

C1_Witness == Built /\ Cardinality(outcome.states) >= 6

DeclaredErrors == {"UnsupportedSymbol", "UnbalancedParentheses", "InvalidConstruction"}

\* an operator token of toks finds fewer fragments than its arity
RECURSIVE StackUnderflows(_, _, _)
StackUnderflows(toks, i, depth) ==
    IF i > Len(toks) THEN FALSE
    ELSE IF toks[i] \in {"|", "."}
         THEN depth < 2 \/ StackUnderflows(toks, i + 1, depth - 1)
         ELSE IF toks[i] \in UnaryOps
              THEN depth < 1 \/ StackUnderflows(toks, i + 1, depth)
              ELSE StackUnderflows(toks, i + 1, depth + 1)

\* C2: a compile returns an automaton or fails with one of the three
\* declared errors, and an operator that finds too few fragments on the
\* stack makes it fail with InvalidConstruction.
C2_DeclaredErrorsOnly ==
    Returned =>
        /\ outcome.kind = "nfa" \/ outcome.err \in DeclaredErrors
        /\ (to_postfix(s).err = "none" /\ StackUnderflows(post, 1, 0))
               => outcome.err = "InvalidConstruction"

\* every ")" has an earlier unmatched "(" and no "(" is left open
RECURSIVE BalancedFrom(_, _, _)
BalancedFrom(str, i, open) ==
    IF i > Len(str) THEN open = 0
    ELSE IF str[i] = "(" THEN BalancedFrom(str, i + 1, open + 1)
    ELSE IF str[i] = ")" THEN open > 0 /\ BalancedFrom(str, i + 1, open - 1)
    ELSE BalancedFrom(str, i + 1, open)

Balanced(str) == BalancedFrom(str, 1, 0)

\* C3: compile fails with UnbalancedParentheses exactly when the
\* parentheses of its input are unbalanced.
C3_UnbalancedExactly ==
    Returned => (outcome.err = "UnbalancedParentheses" <=> ~Balanced(regex))

C3_Witness ==
    Returned /\ regex = <<")", "a", "(">> /\ outcome.err = "UnbalancedParentheses"

\* a literal symbol: neither an operator character nor the empty-string marker
IsLiteral(ch) == ch \notin OperatorChars /\ ch # EPS

LiteralLabels(nfa) ==
    {e[1] : e \in UNION {nfa.heap[u].edges : u \in nfa.states}} \ {EPS}

\* the simulator's current set after the first n characters of w
CurrentAfter(nfa, w, n) ==
    accepts_from(nfa, SubSeq(w, 1, n), 1, epsilon_closure(nfa.heap, {nfa.start}))

\* C7: a word with a character that labels no literal-symbol transition
\* of the automaton (the character 'ε' included) has an empty move set at
\* that character and is rejected.
C7_UnknownCharRejected ==
    pc = "checked" =>
        \A i \in 1..Len(word) :
            word[i] \notin LiteralLabels(outcome) =>
                /\ move(outcome.heap, CurrentAfter(outcome, word, i - 1), word[i]) = {}
                /\ verdict = FALSE

\* the number of "." put in before position i of inp under the pair rule P
Inserted(P(_, _), inp, i) ==
    Cardinality({j \in 1..(i - 1) : P(inp[j], inp[j + 1])})

\* out is inp with a "." after exactly the positions whose pair satisfies P
Expands(P(_, _), inp, out) ==
    /\ Len(out) = Len(inp) + Inserted(P, inp, Len(inp))
    /\ \A i \in 1..Len(inp) : out[i + Inserted(P, inp, i)] = inp[i]
    /\ \A j \in 1..(Len(inp) - 1) :
           P(inp[j], inp[j + 1]) => out[j + Inserted(P, inp, j) + 1] = "."

ClaimedPair(a, b) ==
    /\ IsLiteral(a) \/ a \in {")", "*", "+", "?"}
    /\ IsLiteral(b) \/ b \in {"(", EPS}

AmendedPair(a, b) ==
    /\ IsLiteral(a) \/ a = EPS \/ a \in {")", "*", "+", "?"}
    /\ IsLiteral(b) \/ b \in {"(", EPS}

\* C8 as stated: add_concat puts a "." between a and b exactly when a is a
\* literal symbol, ")", "*", "+" or "?" and b is a literal symbol, "(" or
\* the empty-string marker, keeping every input character in order.
C8_AsStated == Returned => Expands(ClaimedPair, remove_spaces(regex), s)

\* C8 amended: the same, with the empty-string marker also counting on the
\* left: a is a literal symbol, the empty-string marker, ")", "*", "+" or "?".
C8_Amended == Returned => Expands(AmendedPair, remove_spaces(regex), s)

C8_Witness == Returned /\ regex = <<EPS, "a">> /\ s = <<EPS, ".", "a">>

\* to_postfix reads the unary operator str[n] with a unary operator on top
\* of its operator stack
TriggerAt(str, n) ==
    /\ str[n] \in UnaryOps
    /\ LET st == PostfixRun(str, n - 1)
       IN  st.err = "none" /\ st.stack # <<>> /\ Last(st.stack) \in UnaryOps

UnarySeq(q) == SelectSeq(q, LAMBDA ch : ch \in UnaryOps)

\* the unary operators of str, each run of adjacent ones reversed
RECURSIVE RunsReversed(_, _, _, _)
RunsReversed(str, i, run, acc) ==
    IF i > Len(str) THEN acc \o run
    ELSE IF str[i] \in UnaryOps
         THEN RunsReversed(str, i + 1, <<str[i]>> \o run, acc)
         ELSE RunsReversed(str, i + 1, <<>>, acc \o run)

\* C9 as stated: on an input that compiles, to_postfix never reads a unary
\* operator with a unary operator on top of the stack, and the unary
\* operators leave in the order in which they came.
C9_AsStated ==
    Built =>
        /\ \A n \in 1..Len(s) : ~TriggerAt(s, n)
        /\ UnarySeq(post) = UnarySeq(s)

\* C9 amended: on an input that compiles, to_postfix reads a unary operator
\* with a unary operator on top of the stack exactly when that operator
\* directly follows another unary operator, and the unary operators leave
\* in input order except that a run of adjacent ones leaves reversed.
C9_Amended ==
    Built =>
        /\ \A n \in 1..Len(s) :
               TriggerAt(s, n) <=> (n > 1 /\ s[n - 1] \in UnaryOps /\ s[n] \in UnaryOps)
        /\ UnarySeq(post) = RunsReversed(s, 1, <<>>, <<>>)

C9_Witness == Built /\ s = <<"a", "*", "+">> /\ post = <<"a", "+", "*">>

StateIds(nfa) == {nfa.heap[u].id : u \in nfa.states}

\* C10: whatever calls came before, a successful compile returns states
\* with pairwise distinct ids that are exactly 1..|states|, the automaton
\* a first compile (counter at its initial 0) of the same regex returns.
C10_IdsRestart ==
    Built =>
        /\ Cardinality(StateIds(outcome)) = Cardinality(outcome.states)
        /\ StateIds(outcome) = 1..Cardinality(outcome.states)
        /\ outcome = compile_regex_to_nfa(regex, 0).result

C10_Witness == Built /\ id_at_call > 0 /\ Cardinality(outcome.states) >= 4

----------------------------------------------------------------------------
(* Properties of a finished batch <<A, B, (A)(B), (A).(B), (A|B), (A)+>> *)

BatchDone == pc = "checked" /\ Len(nfas) = 6

AcceptsA(w) == nfa_accepts(nfas[1].nfa, w)
AcceptsB(w) == nfa_accepts(nfas[2].nfa, w)

Splits(w) ==
    \E k \in 0..Len(w) : AcceptsA(SubSeq(w, 1, k)) /\ AcceptsB(SubSeq(w, k + 1, Len(w)))

\* w is the concatenation of one or more words that A accepts
RECURSIVE InPlus(_)
InPlus(w) ==
    \/ AcceptsA(w)
    \/ \E k \in 1..(Len(w) - 1) :
           AcceptsA(SubSeq(w, 1, k)) /\ InPlus(SubSeq(w, k + 1, Len(w)))

\* C4: when A and B compile, so do (A)(B) and (A).(B), and each accepts a
\* word over literal symbols iff the word splits into a part A accepts
\* followed by a part B accepts.
C4_Concatenation ==
    /\ pc = "crashed" => Len(nfas) < 2
    /\ (BatchDone /\ \A i \in 1..Len(word) : IsLiteral(word[i])) =>
           /\ verdicts[3] <=> Splits(word)
           /\ verdicts[4] <=> Splits(word)

C4_Witness ==
    /\ BatchDone
    /\ Len(word) = 2
    /\ \A i \in 1..Len(word) : IsLiteral(word[i])
    /\ verdicts[3] /\ verdicts[4]
    /\ ~verdicts[1] /\ ~verdicts[2]

\* C5: (A|B) accepts a word, whatever its characters, iff A accepts it or
\* B accepts it.
C5_Alternation == BatchDone => (verdicts[5] <=> (verdicts[1] \/ verdicts[2]))

\* C6: (A)+ accepts the empty word iff A does, and accepts a word,
\* whatever its characters, iff it is the concatenation of one or more
\* words that A accepts.
C6_Plus ==
    BatchDone =>
        /\ word = <<>> => (verdicts[6] <=> verdicts[1])
        /\ verdicts[6] <=> InPlus(word)

====
